---- MODULE Spec2Model ----
(***************************************************************************)
(* KTree: the cascading selection state machine of the terminal browser.   *)
(* Three list columns (namespaces, object types, objects) and a details    *)
(* panel are populated by background workers whose results are marshalled  *)
(* onto the single UI thread; a selection in one column repopulates the    *)
(* columns downstream of it.                                               *)
(*                                                                         *)
(* Strings are sequences of one-character strings, so that lower() and the *)
(* substring test of the filters are computed.  A text shown in the        *)
(* details panel is the sequence of the fragments its f-string joins.      *)
(* None (and the empty string, which the code treats alike with `not x`)   *)
(* is the empty sequence; a missing highlight is NoHighlight.              *)
(***************************************************************************)
EXTENDS Integers, Sequences, FiniteSets, Bags, TLC

-----------------------------------------------------------------------------
(* Bounds of the model *)

\* how many keyboard / mouse actions the user performs in one run
MaxUser == 1
\* how many background workers may be in flight at one time
MaxWorkers == 2
\* how many messages may wait in the UI queue when a worker's completion
\* callback runs
MaxBacklog == 0
\* operations applied to the column in the widget harness
MaxPanelOps == 5
\* messages that may be queued when the harness applies the next operation
MaxPending == 2
\* how many cursor keys the user presses in one run of the keyboard
\* specification
MaxKeys == 1
\* how many inputs the user makes in one run of the session specification
MaxInputs == 3
\* lines the details panel can be scrolled down
MaxScroll == 1

-----------------------------------------------------------------------------
(* Names *)

None == <<>>
NoHighlight == -1

NS1 == <<"n", "1">>
NS2 == <<"n", "2">>
\* a namespace the directory does not have
NS3 == <<"n", "3">>
Pods == <<"P", "o", "d", "s">>
Services == <<"S", "v", "c">>
P1 == <<"p", "1">>
P2 == <<"p", "2">>
S1 == <<"s", "1">>
\* the items and search values the widget harness uses
A1 == <<"a", "1">>
A2 == <<"a", "2">>
B1 == <<"b", "1">>
A3 == <<"A", "3">>
B2 == <<"b", "2">>
TestItems == {<<>>, <<A1, A2, B1>>, <<A3, B2>>}
TestValues == {<<>>, <<"a">>, <<"A">>, <<"z">>}

LoadingRow == <<"Loading data...">>
NoItemsRow == <<"No items">>
Placeholders == {LoadingRow, NoItemsRow}

ColNs == "col-ns"
ColTypes == "col-types"
ColObjects == "col-objects"
Columns == <<ColNs, ColTypes, ColObjects>>
ColumnIds == {ColNs, ColTypes, ColObjects}

-----------------------------------------------------------------------------
(* The cluster behind K8sManager: what the list calls return when they     *)
(* succeed.  Every call may also raise K8sManagerError.                    *)

GetNamespaces == <<NS1, NS2>>

GetObjectTypes == <<Pods, Services>>

\* namespace n1 holds two pods and no service, n2 one service and no pod
GetObjects(namespace, object_type) ==
    IF namespace = NS1 /\ object_type = Pods THEN <<P1, P2>>
    ELSE IF namespace = NS2 /\ object_type = Services THEN <<S1>>
    ELSE <<>>

GetDetails(namespace, object_type, name) ==
    <<<<"yaml of ">>, namespace, object_type, name>>

GetLogs(namespace, pod_name) ==
    <<<<"log of ">>, namespace, pod_name>>

-----------------------------------------------------------------------------
(* str.lower() and the `in` substring test *)

LowerChar(c) ==
    CASE c = "P" -> "p"
      [] c = "S" -> "s"
      [] c = "A" -> "a"
      [] c = "B" -> "b"
      [] OTHER -> c

Lower(s) == [i \in 1..Len(s) |-> LowerChar(s[i])]

Contains(s, t) ==
    \E i \in 0..(Len(s) - Len(t)) : SubSeq(s, i + 1, i + Len(t)) = t

FilterItems(items, term) ==
    SelectSeq(items, LAMBDA item : Contains(Lower(item), term))

\* whether a details text mentions a name as one of its fragments
Mentions(text, name) == \E i \in 1..Len(text) : text[i] = name

-----------------------------------------------------------------------------
(* BrowserColumn *)

NewColumn ==
    [items |-> <<>>, filtered_items |-> <<>>, is_filtered |-> FALSE,
     filter_term |-> <<>>, search_active |-> FALSE, is_loading |-> FALSE,
     options |-> <<>>, disabled |-> FALSE, highlighted |-> NoHighlight]

\* a set_loading that leaves the cursor where it was; C18 fails with it
SetLoadingKeepsCursor(col, loading) ==
    [col EXCEPT !.is_loading = loading,
                !.options = IF loading THEN <<LoadingRow>> ELSE <<>>,
                !.disabled = loading]

\* BrowserColumn.set_loading: the option list is cleared; items and
\* filtered_items are left as they are
SetLoading(col, loading) ==
    [col EXCEPT !.is_loading = loading,
                !.options = IF loading THEN <<LoadingRow>> ELSE <<>>,
                !.disabled = loading,
                !.highlighted = NoHighlight]

\* a set_items that shows the new items unfiltered; C11 fails with it
SetItemsUnfiltered(col, items) == items

\* the filtered_items set_items computes
SetItemsFiltered(col, items) ==
    IF col.is_filtered /\ col.filter_term # <<>>
    THEN FilterItems(items, col.filter_term)
    ELSE items

\* BrowserColumn.set_items, the column after the call
SetItems(col, items) ==
    LET filtered == SetItemsFiltered(col, items) IN
    [col EXCEPT !.items = items,
                !.is_loading = FALSE,
                !.filtered_items = filtered,
                !.options = IF Len(filtered) = 0 THEN <<NoItemsRow>> ELSE filtered,
                !.disabled = (Len(filtered) = 0),
                !.highlighted = IF Len(items) > 0 /\ Len(filtered) > 0
                                THEN 0 ELSE NoHighlight]

\* whether set_items(items) highlights row 0 and schedules post_selection
SetItemsSchedules(col, items) ==
    Len(items) > 0 /\ Len(SetItemsFiltered(col, items)) > 0

\* an _update_list that sets no cursor on the rebuilt list; C13 fails with it
UpdateListNoCursor(col) ==
    [col EXCEPT !.options = IF Len(col.filtered_items) = 0
                            THEN <<NoItemsRow>> ELSE col.filtered_items,
                !.disabled = (Len(col.filtered_items) = 0),
                !.highlighted = NoHighlight]

\* BrowserColumn._update_list, the column after the call: the option list
\* is rebuilt from filtered_items; is_loading is left as it is
UpdateList(col) ==
    [col EXCEPT !.options = IF Len(col.filtered_items) = 0
                            THEN <<NoItemsRow>> ELSE col.filtered_items,
                !.disabled = (Len(col.filtered_items) = 0),
                !.highlighted = IF Len(col.filtered_items) = 0
                                THEN NoHighlight ELSE 0]

\* BrowserColumn.action_toggle_search: an active search is closed and its
\* filter dropped (the stored term stays), an inactive one is opened
ToggleSearch(col) ==
    IF col.search_active
    THEN UpdateList([col EXCEPT !.search_active = FALSE,
                                !.filtered_items = col.items,
                                !.is_filtered = FALSE])
    ELSE [col EXCEPT !.search_active = TRUE]

\* a submitted value used as typed, not lowercased; C12 fails with it
SubmittedTermAsTyped(value) == value

\* the term on_input_submitted stores for the submitted value
SubmittedTerm(value) == Lower(value)

\* BrowserColumn.on_input_submitted with the search input's value
InputSubmitted(col, value) ==
    LET search_term == SubmittedTerm(value) IN
    IF search_term # <<>>
    THEN UpdateList([col EXCEPT !.filter_term = search_term,
                                !.filtered_items = FilterItems(col.items, search_term),
                                !.is_filtered = TRUE])
    ELSE UpdateList([col EXCEPT !.filter_term = <<>>,
                                !.filtered_items = col.items,
                                !.is_filtered = FALSE])

\* an escape that closes the search but keeps the filtered list; C14 fails
\* with it
EscapeKeepsFiltered(col) ==
    IF col.search_active
    THEN UpdateList([col EXCEPT !.search_active = FALSE,
                                !.is_filtered = FALSE,
                                !.filter_term = <<>>])
    ELSE col

\* BrowserColumn.on_key for the escape key
Escape(col) ==
    IF col.search_active
    THEN UpdateList([col EXCEPT !.search_active = FALSE,
                                !.filtered_items = col.items,
                                !.is_filtered = FALSE,
                                !.filter_term = <<>>])
    ELSE col

\* the item the readers of the cursor take (the timer of
\* _trigger_selection_from_highlight, action_view_logs,
\* action_exec_container): filtered_items[highlighted], None if the cursor
\* is none or past the end of filtered_items
HighlightedItem(col) ==
    IF col.highlighted # NoHighlight /\ col.highlighted < Len(col.filtered_items)
    THEN col.filtered_items[col.highlighted + 1]
    ELSE None

\* an option list whose cursor keys do nothing; C17 fails with it
CursorTargetsStay(col, d) == {col.highlighted}

\* the cursor after option_list.action_cursor_down() (d = 1) or
\* action_cursor_up() (d = -1).  Inside the list the cursor moves by one; at
\* the end of the list, and with no cursor, the outcome is the option list's:
\* it stays, or goes to the first (last) option
CursorTargets(col, d) ==
    LET n == Len(col.options)
        h == col.highlighted
        edge == IF d > 0 THEN 0 ELSE n - 1
    IN IF n = 0 THEN {NoHighlight}
       ELSE IF h = NoHighlight THEN {NoHighlight, edge}
       ELSE IF 0 <= h + d /\ h + d < n THEN {h + d}
       ELSE {h, edge}

-----------------------------------------------------------------------------
(* DetailsPanel.  A text is a sequence; a text the panel filters is a       *)
(* sequence of characters, with "\n" between its lines.                     *)

\* str.split('\n'): the lines of a text, one more than it has "\n"
RECURSIVE SplitLines(_)
SplitLines(text) ==
    IF \A i \in 1..Len(text) : text[i] # "\n"
    THEN << text >>
    ELSE LET k == CHOOSE i \in 1..Len(text) :
                     text[i] = "\n" /\ \A j \in 1..(i - 1) : text[j] # "\n"
         IN << SubSeq(text, 1, k - 1) >> \o SplitLines(SubSeq(text, k + 1, Len(text)))

\* '\n'.join(lines)
RECURSIVE JoinLines(_)
JoinLines(lines) ==
    IF Len(lines) = 0 THEN <<>>
    ELSE IF Len(lines) = 1 THEN lines[1]
    ELSE lines[1] \o <<"\n">> \o JoinLines(Tail(lines))

\* the lines of a text that contain the term, case-insensitively, joined
FilterLines(text, search_term) ==
    JoinLines(SelectSeq(SplitLines(text),
                 LAMBDA line : Contains(Lower(line), Lower(search_term))))

\* what _load_initial_data shows
LoadingNamespacesText == << <<"Loading namespaces...">> >>

\* what compose puts into the content widget
DetailsPlaceholder == << <<"Select an object to view details...">> >>

\* DetailsPanel.__init__, compose, on_mount.  content is what the content
\* widget shows.
NewDetailsPanel ==
    [content |-> DetailsPlaceholder, scroll_y |-> 0, search_active |-> FALSE,
     original_content |-> <<>>, filtered_content |-> <<>>, filter_term |-> <<>>]

\* DetailsPanel._apply_filter
ApplyFilter(d, search_term) ==
    IF d.original_content = <<>>
    THEN d
    ELSE LET filtered == IF search_term # <<>>
                         THEN FilterLines(d.original_content, search_term)
                         ELSE d.original_content
         IN [d EXCEPT !.filter_term = Lower(search_term),
                      !.filtered_content = filtered,
                      !.content = filtered]

\* DetailsPanel.update_content
UpdateContent(d, content) ==
    LET stored == [d EXCEPT !.original_content = content,
                            !.filtered_content = content]
    IN IF d.search_active /\ d.filter_term # <<>>
       THEN ApplyFilter(stored, d.filter_term)
       ELSE [stored EXCEPT !.content = content]

\* DetailsPanel.action_toggle_search
DetailsToggleSearch(d) ==
    IF ~d.search_active
    THEN [d EXCEPT !.search_active = TRUE]
    ELSE [d EXCEPT !.search_active = FALSE,
                   !.filter_term = <<>>,
                   !.content = d.original_content]

\* DetailsPanel.on_input_submitted and on_input_changed, for the search input
DetailsInputSubmitted(d, value) == ApplyFilter(d, value)

-----------------------------------------------------------------------------
(* State *)

VARIABLES
    app,        \* KTreeApp: the selection context
    cols,       \* the three BrowserColumn widgets, by id
    details,    \* DetailsPanel
    workers,    \* bag of background workers (run_worker, thread=True)
    queue,      \* the UI thread's message queue: OptionHighlighted events,
                \* call_later callbacks and Selected messages, in posting order
    timers,     \* bag of running set_timer timers
    budget      \* user actions left

vars == <<app, cols, details, workers, queue, timers, budget>>

\* a worker as run_worker starts it.  ns, kind, item are what its closure
\* has captured (None where it reads the attribute of self when it runs);
\* for_ns and for_kind record the selection its starter had set.
Worker(op, ns, kind, item, for_ns, for_kind) ==
    [op |-> op, phase |-> "started", ns |-> ns, kind |-> kind, item |-> item,
     for_ns |-> for_ns, for_kind |-> for_kind, ok |-> TRUE, res |-> <<>>]

Msg(t, col, item) == [t |-> t, col |-> col, item |-> item]

One(x) == SetToBag({x})

\* the workers `started` can be started: a handler that starts a worker
\* runs when fewer than MaxWorkers are in flight
Fits(started) ==
    BagCardinality(workers) + BagCardinality(started) <= MaxWorkers

\* what set_items(items) on column c posts: the OptionHighlighted event of
\* `highlighted = 0`, then the call_later(post_selection) callback
SetItemsPosts(c, items) ==
    IF SetItemsSchedules(cols[c], items)
    THEN << Msg("highlighted", c, SetItemsFiltered(cols[c], items)[1]),
            Msg("post_selection", c, None) >>
    ELSE <<>>

\* KTreeApp.__init__, compose, on_mount, _initialize_k8s with a reachable
\* cluster, _load_initial_data
Init ==
    /\ app = [current_namespace |-> None, current_object_type |-> None,
              current_view |-> "describe", describe_content |-> None,
              current_pod_name |-> None, connection_error |-> None,
              current_col_idx |-> 0, k8s |-> TRUE, exec_commands |-> <<>>,
              initial_namespace |-> None, initial_type |-> None,
     clipboard |-> None]
    /\ cols = [c \in ColumnIds |->
                 IF c = ColNs THEN SetLoading(NewColumn, TRUE) ELSE NewColumn]
    /\ details = UpdateContent(NewDetailsPanel, LoadingNamespacesText)
    /\ workers = One(Worker("namespaces", None, None, None, None, None))
    /\ queue = <<>>
    /\ timers = EmptyBag
    /\ budget = MaxUser

-----------------------------------------------------------------------------
(* Background workers.  A worker first runs its blocking K8sManager call,   *)
(* reading self.current_namespace / self.current_object_type at that time   *)
(* where its closure does, then hands the outcome to the UI thread with     *)
(* call_from_thread.                                                        *)

\* the arguments the worker's call is made with
RunArgs(w) ==
    CASE w.op \in {"objects_sel", "details", "logs"} ->
            [w EXCEPT !.ns = app.current_namespace]
      [] w.op = "objects_refresh" ->
            [w EXCEPT !.ns = app.current_namespace,
                      !.kind = app.current_object_type]
      [] OTHER -> w

\* what the call returns when it succeeds
RunResult(w) ==
    CASE w.op \in {"namespaces", "namespaces_refresh"} -> GetNamespaces
      [] w.op \in {"types_sel", "types_refresh"} -> GetObjectTypes
      [] w.op \in {"objects_sel", "objects_refresh", "objects_init"} ->
            GetObjects(w.ns, w.kind)
      [] w.op = "details" -> GetDetails(w.ns, w.kind, w.item)
      [] w.op = "logs" -> GetLogs(w.ns, w.item)

\* a started worker makes its call, which succeeds (ok) or raises; each
\* worker has its except branch, so each call is taken to be able to raise
\* a worker that clears the loading state of the namespaces column itself,
\* from its own thread
WorkerRunsAndWrites(ok) ==
    \E w \in BagToSet(workers) :
        /\ w.phase = "started"
        /\ LET a == RunArgs(w)
               d == [a EXCEPT !.phase = "done", !.ok = ok,
                              !.res = IF ok THEN RunResult(a) ELSE <<>>]
           IN workers' = (workers (-) One(w)) (+) One(d)
        /\ cols' = [cols EXCEPT ![ColNs] = SetLoading(@, FALSE)]
        /\ UNCHANGED <<app, details, queue, timers, budget>>

WorkerRuns(ok) ==
    \E w \in BagToSet(workers) :
        /\ w.phase = "started"
        /\ LET a == RunArgs(w)
               d == [a EXCEPT !.phase = "done", !.ok = ok,
                              !.res = IF ok THEN RunResult(a) ELSE <<>>]
           IN workers' = (workers (-) One(w)) (+) One(d)
        /\ UNCHANGED <<app, cols, details, queue, timers, budget>>

WorkerRun == \E ok \in BOOLEAN : WorkerRuns(ok)

\* the call of a worker against a directory whose fetches all succeed
WorkerSucceeds == WorkerRuns(TRUE)

\* a finished worker whose callback is next on the UI thread
Done(w, op, ok) ==
    /\ w \in BagToSet(workers)
    /\ w.phase = "done" /\ w.op = op /\ w.ok = ok

-----------------------------------------------------------------------------
(* Details texts (the f-strings of app.py) *)

LoadingTypesText(item) ==
    << <<"Loading object types for namespace: ">>, item, <<"...">> >>
LoadingObjectsText(item, ns) ==
    << <<"Loading ">>, item, <<" in namespace: ">>, ns, <<"...">> >>
LoadingDetailsText(object_type, item) ==
    << <<"Loading details for ">>, object_type, <<"/">>, item, <<"...">> >>
LoadingLogsText(pod_name) ==
    << <<"Loading logs for pod: ">>, pod_name, <<"...">> >>
NoObjectsText(object_type, ns) ==
    << <<"No ">>, object_type, <<" found in namespace: ">>, ns >>
ObjectsErrorText(object_type, ns) ==
    << <<"Error loading ">>, object_type, <<" in namespace: ">>, ns >>
TypesErrorText == << <<"Error loading object types">> >>
\* an error text without the object's name; C9 fails with it
DetailsErrorTextNoName(object_type, item) ==
    << <<"Error loading details for ">>, object_type >>
DetailsErrorText(object_type, item) ==
    << <<"Error loading details for ">>, object_type, <<"/">>, item >>
LogsText(pod_name, logs) ==
    << <<"Logs for pod: ">>, pod_name, <<"\n\n">> >> \o logs
LogsErrorText(pod_name) ==
    << <<"Error loading logs for pod: ">>, pod_name >>
LogsOnlyPodsText ==
    << <<"Logs are only available for Pods. Please select a Pod first.">> >>
ExecOnlyPodsText ==
    << <<"Exec is only available for Pods. Please select a Pod first.">> >>
FailedToConnect == << <<"Failed to connect to Kubernetes cluster">> >>
RefreshObjectsErrorText == << <<"Error refreshing objects">> >>
RefreshTypesErrorText == << <<"Error refreshing object types">> >>
RefreshNamespacesErrorText == << <<"Error refreshing namespaces">> >>
ConnectionError == << <<"K8sManagerError">> >>
ConnectionErrorText(error) ==
    << <<"Connection Error\n\n">>, error, <<"\n\nPress 'q' to quit">> >>

ErrorTexts ==
    {TypesErrorText, RefreshObjectsErrorText, RefreshTypesErrorText,
     RefreshNamespacesErrorText, ConnectionErrorText(ConnectionError)}
    \cup {ObjectsErrorText(k, n) : k \in {Pods, Services}, n \in {None, NS1, NS2}}
    \cup {DetailsErrorText(k, x) : k \in {Pods, Services}, x \in {P1, P2, S1}}
    \cup {LogsErrorText(x) : x \in {P1, P2, S1}}


-----------------------------------------------------------------------------
(* Completion handlers, run on the UI thread by call_from_thread *)

\* call_from_thread runs a completion callback when the UI queue is short, or
\* when the message at its head waits for a worker to finish
CallFromThread ==
    \/ Len(queue) <= MaxBacklog
    \/ /\ queue # <<>>
       /\ Head(queue).t = "selected"
       /\ BagCardinality(workers) >= MaxWorkers

\* a completion handler takes worker w off the bag and posts `posts`
Complete(w, posts) ==
    /\ CallFromThread
    /\ queue' = queue \o posts
    /\ workers' = workers (-) One(w)
    /\ UNCHANGED budget

\* the timer _on_namespaces_loaded sets to select the first namespace
StartupTimer(namespaces) ==
    IF Len(namespaces) > 0
    THEN One(Msg("startup_timer", ColNs, namespaces[1]))
    ELSE EmptyBag

\* the worker _load_object_types_for_namespace starts
LoadObjectTypesForNamespace(namespace) ==
    Worker("types_sel", namespace, None, None, namespace, None)

\* whether _on_namespaces_loaded takes its initial-namespace branch
InitialPresent(namespaces) ==
    /\ app.initial_namespace # None
    /\ \E i \in 1..Len(namespaces) : namespaces[i] = app.initial_namespace

\* namespaces.index(self.initial_namespace)
InitialIndex(namespaces) ==
    (CHOOSE i \in 1..Len(namespaces) :
        /\ namespaces[i] = app.initial_namespace
        /\ \A j \in 1..(i - 1) : namespaces[j] # app.initial_namespace) - 1

\* an _on_namespaces_loaded that never looks at the initial namespace
OnNamespacesLoadedIgnoresInitial ==
    \E w \in BagToSet(workers) :
        /\ Done(w, "namespaces", TRUE)
        /\ cols' = [cols EXCEPT ![ColNs] = SetItems(@, w.res)]
        /\ Complete(w, SetItemsPosts(ColNs, w.res))
        /\ timers' = timers (+) StartupTimer(w.res)
        /\ app' = [app EXCEPT !.current_col_idx = 0]
        /\ UNCHANGED details

OnNamespacesLoaded ==
    \E w \in BagToSet(workers) :
        /\ Done(w, "namespaces", TRUE)
        /\ IF InitialPresent(w.res)
           THEN LET ns_idx == InitialIndex(w.res) IN
                /\ cols' = [cols EXCEPT
                              ![ColNs] = [SetItems(@, w.res) EXCEPT !.highlighted = ns_idx],
                              ![ColTypes] = SetLoading(@, TRUE)]
                /\ app' = [app EXCEPT !.current_namespace = app.initial_namespace]
                /\ CallFromThread
                /\ queue' = queue \o SetItemsPosts(ColNs, w.res)
                                  \o (IF ns_idx # 0
                                      THEN << Msg("highlighted", ColNs, app.initial_namespace) >>
                                      ELSE <<>>)
                /\ workers' = (workers (-) One(w))
                                  (+) One(LoadObjectTypesForNamespace(app.initial_namespace))
                /\ UNCHANGED <<timers, budget>>
           ELSE /\ cols' = [cols EXCEPT ![ColNs] = SetItems(@, w.res)]
                /\ Complete(w, SetItemsPosts(ColNs, w.res))
                /\ timers' = timers (+) StartupTimer(w.res)
                /\ app' = [app EXCEPT !.current_col_idx = 0]
        /\ UNCHANGED details

OnNamespacesError ==
    \E w \in BagToSet(workers) :
        /\ Done(w, "namespaces", FALSE)
        /\ app' = [app EXCEPT !.connection_error = ConnectionError]
        /\ details' = UpdateContent(details, ConnectionErrorText(ConnectionError))
        /\ Complete(w, <<>>)
        /\ UNCHANGED <<cols, timers>>

\* the worker _load_objects_for_type starts
LoadObjectsForType(namespace, object_type) ==
    Worker("objects_init", namespace, object_type, None, namespace, object_type)

\* whether _on_object_types_loaded takes its initial-type branch
InitialTypePresent(object_types) ==
    /\ app.initial_type # None
    /\ \E i \in 1..Len(object_types) : object_types[i] = app.initial_type

\* object_types.index(self.initial_type)
InitialTypeIndex(object_types) ==
    (CHOOSE i \in 1..Len(object_types) :
        /\ object_types[i] = app.initial_type
        /\ \A j \in 1..(i - 1) : object_types[j] # app.initial_type) - 1

\* _on_object_types_loaded(namespace, object_types), the callback of the
\* workers of _load_object_types_for_namespace and of the col-ns branch
OnObjectTypesLoaded ==
    \E w \in BagToSet(workers) :
        /\ Done(w, "types_sel", TRUE)
        /\ IF InitialTypePresent(w.res)
           THEN LET type_idx == InitialTypeIndex(w.res) IN
                /\ cols' = [cols EXCEPT
                              ![ColTypes] = [SetItems(@, w.res) EXCEPT !.highlighted = type_idx],
                              ![ColObjects] = SetLoading(@, TRUE)]
                /\ app' = [app EXCEPT !.current_object_type = app.initial_type]
                /\ CallFromThread
                /\ queue' = queue \o SetItemsPosts(ColTypes, w.res)
                                  \o (IF type_idx # 0
                                      THEN << Msg("highlighted", ColTypes, app.initial_type) >>
                                      ELSE <<>>)
                /\ workers' = (workers (-) One(w))
                                  (+) One(LoadObjectsForType(w.ns, app.initial_type))
                /\ UNCHANGED <<timers, budget>>
           ELSE /\ cols' = [cols EXCEPT ![ColTypes] = SetItems(@, w.res)]
                /\ Complete(w, SetItemsPosts(ColTypes, w.res))
                /\ UNCHANGED <<app, timers>>
        /\ UNCHANGED details

\* _on_objects_loaded, the callback of the worker of _load_objects_for_type
OnObjectsLoaded ==
    \E w \in BagToSet(workers) :
        /\ Done(w, "objects_init", TRUE)
        /\ cols' = [cols EXCEPT ![ColObjects] = SetItems(@, w.res)]
        /\ Complete(w, SetItemsPosts(ColObjects, w.res))
        /\ UNCHANGED <<app, details, timers>>

OnObjectTypesError ==
    \E w \in BagToSet(workers) :
        /\ Done(w, "types_sel", FALSE)
        /\ details' = UpdateContent(details, TypesErrorText)
        /\ Complete(w, <<>>)
        /\ UNCHANGED <<app, cols, timers>>

\* the details text _on_objects_loaded_from_selection leaves
ObjectsLoadedContent(object_type, objects) ==
    IF Len(objects) > 0
    THEN details
    ELSE UpdateContent(details, NoObjectsText(object_type, app.current_namespace))

OnObjectsLoadedFromSelection ==
    \E w \in BagToSet(workers) :
        /\ Done(w, "objects_sel", TRUE)
        /\ cols' = [cols EXCEPT ![ColObjects] = SetItems(@, w.res)]
        /\ details' = ObjectsLoadedContent(w.kind, w.res)
        /\ Complete(w, SetItemsPosts(ColObjects, w.res))
        /\ UNCHANGED <<app, timers>>

\* an object-list error handler that also drops the current object type; C10
\* fails with it
OnObjectsErrorFromSelectionResets ==
    \E w \in BagToSet(workers) :
        /\ Done(w, "objects_sel", FALSE)
        /\ app' = [app EXCEPT !.current_object_type = None]
        /\ cols' = [cols EXCEPT ![ColObjects] = SetItems(@, <<>>)]
        /\ details' = UpdateContent(details,
                          ObjectsErrorText(w.kind, app.current_namespace))
        /\ Complete(w, <<>>)
        /\ UNCHANGED timers

OnObjectsErrorFromSelection ==
    \E w \in BagToSet(workers) :
        /\ Done(w, "objects_sel", FALSE)
        /\ cols' = [cols EXCEPT ![ColObjects] = SetItems(@, <<>>)]
        /\ details' = UpdateContent(details,
                          ObjectsErrorText(w.kind, app.current_namespace))
        /\ Complete(w, <<>>)
        /\ UNCHANGED <<app, timers>>

\* the selection context _on_details_loaded leaves
DetailsLoadedApp(object_type, item, yaml_details) ==
    [app EXCEPT !.describe_content = yaml_details,
                !.current_view = "describe"]

OnDetailsLoaded ==
    \E w \in BagToSet(workers) :
        /\ Done(w, "details", TRUE)
        /\ app' = DetailsLoadedApp(w.kind, w.item, w.res)
        /\ details' = UpdateContent(details, w.res)
        /\ Complete(w, <<>>)
        /\ UNCHANGED <<cols, timers>>

\* an _on_details_error that reports the failure and fetches again
OnDetailsErrorRetries ==
    \E w \in BagToSet(workers) :
        /\ Done(w, "details", FALSE)
        /\ details' = UpdateContent(details, DetailsErrorText(w.kind, w.item))
        /\ CallFromThread
        /\ workers' = (workers (-) One(w)) (+) One([w EXCEPT !.phase = "started"])
        /\ UNCHANGED <<app, cols, queue, timers, budget>>

OnDetailsError ==
    \E w \in BagToSet(workers) :
        /\ Done(w, "details", FALSE)
        /\ details' = UpdateContent(details, DetailsErrorText(w.kind, w.item))
        /\ Complete(w, <<>>)
        /\ UNCHANGED <<app, cols, timers>>

OnLogsLoaded ==
    \E w \in BagToSet(workers) :
        /\ Done(w, "logs", TRUE)
        /\ app' = [app EXCEPT !.current_view = "logs"]
        /\ details' = UpdateContent(details, LogsText(w.item, w.res))
        /\ Complete(w, <<>>)
        /\ UNCHANGED <<cols, timers>>

OnLogsError ==
    \E w \in BagToSet(workers) :
        /\ Done(w, "logs", FALSE)
        /\ details' = UpdateContent(details, LogsErrorText(w.item))
        /\ Complete(w, <<>>)
        /\ UNCHANGED <<app, cols, timers>>

\* the column a refresh worker repopulates
RefreshColumn(op) ==
    CASE op = "objects_refresh" -> ColObjects
      [] op = "types_refresh" -> ColTypes
      [] op = "namespaces_refresh" -> ColNs

RefreshErrorText(op) ==
    CASE op = "objects_refresh" -> RefreshObjectsErrorText
      [] op = "types_refresh" -> RefreshTypesErrorText
      [] op = "namespaces_refresh" -> RefreshNamespacesErrorText

RefreshOps == {"objects_refresh", "types_refresh", "namespaces_refresh"}

\* _on_objects_refreshed, _on_object_types_refreshed, _on_namespaces_refreshed
OnRefreshed ==
    \E w \in BagToSet(workers) :
        /\ w.op \in RefreshOps /\ Done(w, w.op, TRUE)
        /\ cols' = [cols EXCEPT ![RefreshColumn(w.op)] = SetItems(@, w.res)]
        /\ Complete(w, SetItemsPosts(RefreshColumn(w.op), w.res))
        /\ UNCHANGED <<app, details, timers>>

\* _on_objects_refresh_error, _on_object_types_refresh_error,
\* _on_namespaces_refresh_error
OnRefreshError ==
    \E w \in BagToSet(workers) :
        /\ w.op \in RefreshOps /\ Done(w, w.op, FALSE)
        /\ details' = UpdateContent(details, RefreshErrorText(w.op))
        /\ Complete(w, <<>>)
        /\ UNCHANGED <<app, cols, timers>>

-----------------------------------------------------------------------------
(* Messages and deferred callbacks on the UI thread *)

\* the message at the head of the queue is of type t, from column c
Head_(t, c) == queue # <<>> /\ Head(queue).t = t /\ Head(queue).col = c

\* the UI thread takes the head off its queue, posts `posts` and starts the
\* workers `started`
Handle(posts, started) ==
    /\ Fits(started)
    /\ queue' = Tail(queue) \o posts
    /\ workers' = workers (+) started
    /\ UNCHANGED <<timers, budget>>

\* a post_selection that does not look at the option list's state; C4 fails
\* with it
PostSelectionPostsUnchecked(c) ==
    IF Len(cols[c].filtered_items) > 0
    THEN << Msg("selected", c, cols[c].filtered_items[1]) >>
    ELSE <<>>

\* what post_selection posts when it runs
PostSelectionPosts(c) ==
    IF /\ Len(cols[c].filtered_items) > 0
       /\ ~cols[c].disabled
       /\ cols[c].highlighted # NoHighlight
    THEN << Msg("selected", c, cols[c].filtered_items[1]) >>
    ELSE <<>>

\* BrowserColumn.set_items.post_selection, run by call_later
PostSelection ==
    \E c \in ColumnIds :
        /\ Head_("post_selection", c)
        /\ Handle(PostSelectionPosts(c), EmptyBag)
        /\ UNCHANGED <<app, cols, details>>

\* what the option list posts when its cursor goes from `old` to h
CursorPosts(c, old, h) ==
    IF h # old /\ h # NoHighlight
    THEN << Msg("highlighted", c, cols[c].options[h + 1]) >>
    ELSE <<>>

\* what on_option_list_option_highlighted posts for an event
OptionHighlightedPosts(c, prompt) ==
    IF cols[c].disabled \/ prompt \in Placeholders
    THEN <<>>
    ELSE << Msg("selected", c, prompt) >>

\* BrowserColumn.on_option_list_option_highlighted
OnOptionHighlighted ==
    \E c \in ColumnIds :
        /\ Head_("highlighted", c)
        /\ Handle(OptionHighlightedPosts(c, Head(queue).item), EmptyBag)
        /\ UNCHANGED <<app, cols, details>>

\* the selection context after the col-ns branch
NamespaceSelectedApp(item) ==
    [app EXCEPT !.current_namespace = item,
                !.current_object_type = None,
                !.describe_content = None,
                !.current_view = "describe"]

\* a col-ns branch that leaves the objects column alone; C7 fails with it
NamespaceSelectedColsKeepsObjects ==
    [cols EXCEPT ![ColTypes] = SetLoading(@, TRUE)]

\* the columns after the col-ns branch
NamespaceSelectedCols ==
    [cols EXCEPT ![ColTypes] = SetLoading(@, TRUE),
                 ![ColObjects] = SetItems(@, <<>>)]

\* on_browser_column_selected, column_id == "col-ns": the state it leaves
NamespaceSelected(item) ==
    /\ app' = NamespaceSelectedApp(item)
    /\ cols' = NamespaceSelectedCols
    /\ details' = UpdateContent(details, LoadingTypesText(item))

\* ... and the worker it starts
LoadObjectTypes(item) == Worker("types_sel", item, None, None, item, None)

\* a Selected message of the namespaces column reaches the app
SelectedNamespace ==
    /\ Head_("selected", ColNs)
    /\ NamespaceSelected(Head(queue).item)
    /\ Handle(SetItemsPosts(ColObjects, <<>>),
              One(LoadObjectTypes(Head(queue).item)))

\* the timer of _on_namespaces_loaded calls on_browser_column_selected
StartupTimerFired ==
    \E m \in BagToSet(timers) :
        /\ m.t = "startup_timer"
        /\ NamespaceSelected(m.item)
        /\ Fits(One(LoadObjectTypes(m.item)))
        /\ workers' = workers (+) One(LoadObjectTypes(m.item))
        /\ timers' = timers (-) One(m)
        /\ queue' = queue \o SetItemsPosts(ColObjects, <<>>)
        /\ UNCHANGED budget

\* a col-types branch that does not record the object type; C5 fails with it
TypeSelectedAppKeepsType(item) ==
    [app EXCEPT !.describe_content = None,
                !.current_view = "describe"]

\* a col-types branch that keeps the describe text and the view
TypeSelectedAppKeepsCache(item) ==
    [app EXCEPT !.current_object_type = item]

\* the selection context after the col-types branch
TypeSelectedApp(item) ==
    [app EXCEPT !.current_object_type = item,
                !.describe_content = None,
                !.current_view = "describe"]

\* the worker the col-types branch starts
LoadObjects(item) ==
    Worker("objects_sel", None, item, None, app.current_namespace, item)

\* on_browser_column_selected, column_id == "col-types"
SelectedType ==
    /\ Head_("selected", ColTypes)
    /\ IF app.current_namespace = None
       THEN /\ Handle(<<>>, EmptyBag)
            /\ UNCHANGED <<app, cols, details>>
       ELSE /\ app' = TypeSelectedApp(Head(queue).item)
            /\ details' = UpdateContent(details,
                   LoadingObjectsText(Head(queue).item, app.current_namespace))
            /\ cols' = [cols EXCEPT ![ColObjects] = SetLoading(@, TRUE)]
            /\ Handle(<<>>, One(LoadObjects(Head(queue).item)))

\* a col-objects branch that stores the item as pod name whatever the kind
ObjectSelectedAppAlwaysStores(item) ==
    [app EXCEPT !.current_pod_name = item]

\* the selection context after the col-objects branch
ObjectSelectedApp(item) ==
    [app EXCEPT !.current_pod_name =
                    IF app.current_object_type = Pods THEN item ELSE None]

\* the worker the col-objects branch starts
LoadDetails(item) ==
    Worker("details", None, app.current_object_type, item,
           app.current_namespace, app.current_object_type)

\* on_browser_column_selected, column_id == "col-objects"
SelectedObject ==
    /\ Head_("selected", ColObjects)
    /\ IF app.current_namespace = None \/ app.current_object_type = None
       THEN /\ Handle(<<>>, EmptyBag)
            /\ UNCHANGED <<app, cols, details>>
       ELSE /\ app' = ObjectSelectedApp(Head(queue).item)
            /\ details' = UpdateContent(details,
                   LoadingDetailsText(app.current_object_type, Head(queue).item))
            /\ Handle(<<>>, One(LoadDetails(Head(queue).item)))
            /\ UNCHANGED cols

-----------------------------------------------------------------------------
(* User actions *)

\* a user action posts `posts` and starts the workers `started`
User(posts, started) ==
    /\ budget > 0
    /\ budget' = budget - 1
    /\ Fits(started)
    /\ queue' = queue \o posts
    /\ workers' = workers (+) started
    /\ UNCHANGED timers

\* the user selects row i of an enabled column: the option list highlights it
\* and on_option_list_option_selected posts Selected for its prompt
UserSelect ==
    \E c \in ColumnIds :
        \E i \in 0..(Len(cols[c].options) - 1) :
            LET prompt == cols[c].options[i + 1] IN
            /\ ~cols[c].disabled
            /\ prompt \notin Placeholders
            /\ cols' = [cols EXCEPT ![c].highlighted = i]
            /\ User((IF cols[c].highlighted # i
                     THEN << Msg("highlighted", c, prompt) >>
                     ELSE <<>>)
                    \o << Msg("selected", c, prompt) >>,
                    EmptyBag)
            /\ UNCHANGED <<app, details>>

\* a refresh that always reloads the namespaces; C20 fails with it
RefreshWorkerNamespaces ==
    Worker("namespaces_refresh", None, None, None,
           app.current_namespace, app.current_object_type)

\* the worker action_refresh starts
RefreshWorker ==
    IF app.current_namespace # None /\ app.current_object_type # None
    THEN Worker("objects_refresh", None, None, None,
                app.current_namespace, app.current_object_type)
    ELSE IF app.current_namespace # None
    THEN Worker("types_refresh", None, None, None,
                app.current_namespace, app.current_object_type)
    ELSE Worker("namespaces_refresh", None, None, None,
                app.current_namespace, app.current_object_type)

\* KTreeApp.action_refresh
ActionRefresh ==
    /\ app.k8s
    /\ cols' = [cols EXCEPT ![RefreshColumn(RefreshWorker.op)] = SetLoading(@, TRUE)]
    /\ User(<<>>, One(RefreshWorker))
    /\ UNCHANGED <<app, details>>

\* the pod action_view_logs reads from the objects column, None if there
\* is none
HighlightedPod ==
    LET col == cols[ColObjects] IN
    IF col.highlighted # NoHighlight /\ col.highlighted < Len(col.filtered_items)
    THEN col.filtered_items[col.highlighted + 1]
    ELSE None

\* the worker action_view_logs starts
LoadLogs(pod_name) ==
    Worker("logs", None, None, pod_name,
           app.current_namespace, app.current_object_type)

\* KTreeApp.action_view_logs
ActionViewLogs ==
    /\ app.k8s
    /\ app.current_namespace # None
    /\ IF app.current_object_type # Pods
       THEN /\ details' = UpdateContent(details, LogsOnlyPodsText)
            /\ User(<<>>, EmptyBag)
       ELSE /\ HighlightedPod # None
            /\ details' = UpdateContent(details, LoadingLogsText(HighlightedPod))
            /\ User(<<>>, One(LoadLogs(HighlightedPod)))
    /\ UNCHANGED <<app, cols>>

\* the shells action_exec_container offers
Shells == << <<"/bin/sh">>, <<"/bin/bash">>, <<"/bin/ash">>, <<"/bin/zsh">> >>

\* the context K8sManager.get_current_context reports
CurrentContext == <<"ctx">>

\* the command action_exec_container builds for a shell
ExecCommand(pod_name, shell) ==
    << <<"kubectl exec -it ">>, pod_name, <<" -n ">>, app.current_namespace,
       <<" --context ">>, CurrentContext, <<" -- ">>, shell >>

ExecCommands(pod_name) == [i \in 1..Len(Shells) |-> ExecCommand(pod_name, Shells[i])]

\* the text action_exec_container shows: the heading and the four commands
ExecText(pod_name) ==
    LET cmds == ExecCommands(pod_name) IN
    << <<"Exec commands for pod: ">>, pod_name >>
        \o cmds[1] \o cmds[2] \o cmds[3] \o cmds[4]

\* action_exec_container without its check of the kind
ActionExecContainerAnyKind ==
    /\ app.k8s
    /\ app.current_namespace # None
    /\ HighlightedPod # None
    /\ app' = [app EXCEPT !.current_pod_name = HighlightedPod,
                          !.current_view = "exec",
                          !.exec_commands = ExecCommands(HighlightedPod)]
    /\ details' = UpdateContent(details, ExecText(HighlightedPod))
    /\ User(<<>>, EmptyBag)
    /\ UNCHANGED cols

\* KTreeApp.action_exec_container
ActionExecContainer ==
    /\ app.k8s
    /\ app.current_namespace # None
    /\ IF app.current_object_type # Pods
       THEN /\ details' = UpdateContent(details, ExecOnlyPodsText)
            /\ app' = [app EXCEPT !.current_view = "describe"]
       ELSE /\ HighlightedPod # None
            /\ app' = [app EXCEPT !.current_pod_name = HighlightedPod,
                                  !.current_view = "exec",
                                  !.exec_commands = ExecCommands(HighlightedPod)]
            /\ details' = UpdateContent(details, ExecText(HighlightedPod))
    /\ User(<<>>, EmptyBag)
    /\ UNCHANGED cols

\* the indexes _copy_command_by_index is tried with: those of the four
\* bindings CTRL+1..4 and one on each side of them
CopyIndexes == 0..5

\* the command _copy_command_by_index hands to _copy_to_clipboard, None when
\* it returns early
CopiedCommand(index) ==
    IF app.exec_commands = <<>> \/ index < 1 \/ index > Len(app.exec_commands)
    THEN None
    ELSE app.exec_commands[index]

\* KTreeApp._copy_command_by_index; _copy_to_clipboard succeeds or not (the
\* platform's clipboard utility may be missing)
CopyCommandByIndex(index) ==
    /\ \E success \in BOOLEAN :
          app' = IF CopiedCommand(index) # None /\ success
                 THEN [app EXCEPT !.clipboard = CopiedCommand(index)]
                 ELSE app
    /\ User(<<>>, EmptyBag)
    /\ UNCHANGED <<cols, details>>

\* action_copy_command_1 .. action_copy_command_4
ActionCopyCommand == \E index \in CopyIndexes : CopyCommandByIndex(index)

\* action_view_describe showing the text without changing the view
ActionViewDescribeKeepsView ==
    /\ IF app.describe_content # None
       THEN /\ details' = UpdateContent(details, app.describe_content)
            /\ UNCHANGED app
       ELSE UNCHANGED <<app, details>>
    /\ User(<<>>, EmptyBag)
    /\ UNCHANGED cols

\* KTreeApp.action_view_describe
ActionViewDescribe ==
    /\ IF app.describe_content # None
       THEN /\ app' = [app EXCEPT !.current_view = "describe"]
            /\ details' = UpdateContent(details, app.describe_content)
       ELSE UNCHANGED <<app, details>>
    /\ User(<<>>, EmptyBag)
    /\ UNCHANGED cols

-----------------------------------------------------------------------------
(* Specification *)

Next ==
    \/ WorkerRun
    \/ OnNamespacesLoaded
    \/ OnNamespacesError
    \/ OnObjectTypesLoaded
    \/ OnObjectTypesError
    \/ OnObjectsLoadedFromSelection
    \/ OnObjectsErrorFromSelection
    \/ OnDetailsLoaded
    \/ OnDetailsError
    \/ OnLogsLoaded
    \/ OnLogsError
    \/ OnRefreshed
    \/ OnRefreshError
    \/ PostSelection
    \/ OnOptionHighlighted
    \/ SelectedNamespace
    \/ StartupTimerFired
    \/ SelectedType
    \/ SelectedObject
    \/ UserSelect
    \/ ActionRefresh
    \/ ActionViewLogs

Spec == Init /\ [][Next]_vars

\* Startup with no user input against a directory whose fetches all succeed.
\* The UI thread's loop and the worker threads keep running, so a step is
\* taken whenever one is possible.
StartupNext ==
    \/ WorkerSucceeds
    \/ OnNamespacesLoaded
    \/ OnObjectTypesLoaded
    \/ OnObjectsLoadedFromSelection
    \/ OnDetailsLoaded
    \/ PostSelection
    \/ OnOptionHighlighted
    \/ SelectedNamespace
    \/ StartupTimerFired
    \/ SelectedType
    \/ SelectedObject

StartupSpec == Init /\ [][StartupNext]_vars /\ WF_vars(StartupNext)

\* Startup with the --namespace argument: not given, the first or the second
\* namespace of the directory, or a namespace the directory does not have
InitialNamespaces == {None, NS1, NS2, NS3}

InitialInit ==
    /\ \E namespace \in InitialNamespaces :
          app = [current_namespace |-> None, current_object_type |-> None,
                 current_view |-> "describe", describe_content |-> None,
                 current_pod_name |-> None, connection_error |-> None,
                 current_col_idx |-> 0, k8s |-> TRUE, exec_commands |-> <<>>,
                 initial_namespace |-> namespace, initial_type |-> None,
     clipboard |-> None]
    /\ cols = [c \in ColumnIds |->
                 IF c = ColNs THEN SetLoading(NewColumn, TRUE) ELSE NewColumn]
    /\ details = UpdateContent(NewDetailsPanel, LoadingNamespacesText)
    /\ workers = One(Worker("namespaces", None, None, None, None, None))
    /\ queue = <<>>
    /\ timers = EmptyBag
    /\ budget = MaxUser

InitialSpec == InitialInit /\ [][StartupNext]_vars /\ WF_vars(StartupNext)

\* Startup with the --type argument: not given, the first or the second kind
\* of the directory.  Fetches succeed and the user makes up to MaxUser
\* selections.
InitialTypes == {None, Pods, Services}

KindInit ==
    /\ \E object_type \in InitialTypes :
          app = [current_namespace |-> None, current_object_type |-> None,
                 current_view |-> "describe", describe_content |-> None,
                 current_pod_name |-> None, connection_error |-> None,
                 current_col_idx |-> 0, k8s |-> TRUE, exec_commands |-> <<>>,
                 initial_namespace |-> None, initial_type |-> object_type,
                 clipboard |-> None]
    /\ cols = [c \in ColumnIds |->
                 IF c = ColNs THEN SetLoading(NewColumn, TRUE) ELSE NewColumn]
    /\ details = UpdateContent(NewDetailsPanel, LoadingNamespacesText)
    /\ workers = One(Worker("namespaces", None, None, None, None, None))
    /\ queue = <<>>
    /\ timers = EmptyBag
    /\ budget = MaxUser

KindNext ==
    \/ WorkerSucceeds
    \/ OnNamespacesLoaded
    \/ OnObjectTypesLoaded
    \/ OnObjectsLoaded
    \/ OnObjectsLoadedFromSelection
    \/ OnDetailsLoaded
    \/ PostSelection
    \/ OnOptionHighlighted
    \/ SelectedNamespace
    \/ StartupTimerFired
    \/ SelectedType
    \/ SelectedObject
    \/ UserSelect

KindSpec == KindInit /\ [][KindNext]_vars

\* The session after startup: either the startup cascade has settled on the
\* first namespace, kind and object, or the connection failed in
\* _initialize_k8s (K8sManager() raised and there is no client, or there is
\* a client and test_connection was false).
\* The user then makes up to MaxInputs inputs; fetches succeed or fail.
SettledApp ==
    [current_namespace |-> NS1, current_object_type |-> Pods,
     current_view |-> "describe", describe_content |-> GetDetails(NS1, Pods, P1),
     current_pod_name |-> P1, connection_error |-> None,
     current_col_idx |-> 0, k8s |-> TRUE, exec_commands |-> <<>>,
     initial_namespace |-> None, initial_type |-> None,
     clipboard |-> None]

FailedApp(client, error) ==
    [current_namespace |-> None, current_object_type |-> None,
     current_view |-> "describe", describe_content |-> None,
     current_pod_name |-> None, connection_error |-> error,
     current_col_idx |-> 0, k8s |-> client, exec_commands |-> <<>>,
     initial_namespace |-> None, initial_type |-> None,
     clipboard |-> None]

SessionInit ==
    /\ \/ /\ app = SettledApp
          /\ cols = [c \in ColumnIds |->
                       SetItems(NewColumn,
                           IF c = ColNs THEN GetNamespaces
                           ELSE IF c = ColTypes THEN GetObjectTypes
                           ELSE GetObjects(NS1, Pods))]
          /\ details = UpdateContent(NewDetailsPanel, GetDetails(NS1, Pods, P1))
       \/ \E client \in BOOLEAN, error \in {ConnectionError, FailedToConnect} :
             /\ client <=> error = FailedToConnect
             /\ app = FailedApp(client, error)
             /\ cols = [c \in ColumnIds |-> NewColumn]
             /\ details = UpdateContent(NewDetailsPanel, ConnectionErrorText(error))
    /\ workers = EmptyBag
    /\ queue = <<>>
    /\ timers = EmptyBag
    /\ budget = MaxInputs

SessionNext ==
    \/ WorkerRun
    \/ OnObjectTypesLoaded
    \/ OnObjectTypesError
    \/ OnObjectsLoadedFromSelection
    \/ OnObjectsErrorFromSelection
    \/ OnDetailsLoaded
    \/ OnDetailsError
    \/ OnLogsLoaded
    \/ OnLogsError
    \/ OnRefreshed
    \/ OnRefreshError
    \/ PostSelection
    \/ OnOptionHighlighted
    \/ SelectedNamespace
    \/ SelectedType
    \/ SelectedObject
    \/ UserSelect
    \/ ActionRefresh
    \/ ActionViewLogs
    \/ ActionExecContainer
    \/ ActionViewDescribe

SessionSpec == SessionInit /\ [][SessionNext]_vars

\* The session with the exec commands: selections whose fetches succeed,
\* the exec action and the copy actions.
CopyNext ==
    \/ WorkerSucceeds
    \/ OnObjectTypesLoaded
    \/ OnObjectsLoadedFromSelection
    \/ OnDetailsLoaded
    \/ PostSelection
    \/ OnOptionHighlighted
    \/ SelectedNamespace
    \/ SelectedType
    \/ SelectedObject
    \/ UserSelect
    \/ ActionExecContainer
    \/ ActionCopyCommand

CopySpec == SessionInit /\ [][CopyNext]_vars

-----------------------------------------------------------------------------
(* The column on its own, as the widget tests mount it: a BrowserColumn in  *)
(* an App without handlers.  The harness applies up to MaxPanelOps          *)
(* operations; Selected messages bubble to the App and are dropped.         *)

\* the column the harness mounts
TestColumn == ColNs

\* what _update_list posts: the OptionHighlighted event of `highlighted = 0`
UpdateListPosts(c, col) ==
    IF Len(col.filtered_items) > 0
    THEN << Msg("highlighted", c, col.filtered_items[1]) >>
    ELSE <<>>

ToggleSearchPosts(c) ==
    IF cols[c].search_active
    THEN UpdateListPosts(c, ToggleSearch(cols[c]))
    ELSE <<>>

InputSubmittedPosts(c, value) == UpdateListPosts(c, InputSubmitted(cols[c], value))

EscapePosts(c) ==
    IF cols[c].search_active
    THEN UpdateListPosts(c, Escape(cols[c]))
    ELSE <<>>

ColumnInit ==
    /\ app = [current_namespace |-> None, current_object_type |-> None,
              current_view |-> "describe", describe_content |-> None,
              current_pod_name |-> None, connection_error |-> None,
              current_col_idx |-> 0, k8s |-> TRUE, exec_commands |-> <<>>,
              initial_namespace |-> None, initial_type |-> None,
     clipboard |-> None]
    /\ cols = [c \in ColumnIds |-> NewColumn]
    /\ details = NewDetailsPanel
    /\ workers = EmptyBag
    /\ queue = <<>>
    /\ timers = EmptyBag
    /\ budget = MaxPanelOps

\* the harness applies an operation that posts `posts`
PanelOp(posts) ==
    /\ budget > 0
    /\ budget' = budget - 1
    /\ Len(queue) <= MaxPending
    /\ queue' = queue \o posts
    /\ UNCHANGED <<app, details, workers, timers>>

TestSetItems ==
    \E items \in TestItems :
        /\ cols' = [cols EXCEPT ![TestColumn] = SetItems(@, items)]
        /\ PanelOp(SetItemsPosts(TestColumn, items))

TestSetLoading ==
    \E loading \in BOOLEAN :
        /\ cols' = [cols EXCEPT ![TestColumn] = SetLoading(@, loading)]
        /\ PanelOp(<<>>)

TestToggleSearch ==
    /\ cols' = [cols EXCEPT ![TestColumn] = ToggleSearch(@)]
    /\ PanelOp(ToggleSearchPosts(TestColumn))

\* Enter in the search input, which is shown while the search is active
TestInputSubmitted ==
    \E value \in TestValues :
        /\ cols[TestColumn].search_active
        /\ cols' = [cols EXCEPT ![TestColumn] = InputSubmitted(@, value)]
        /\ PanelOp(InputSubmittedPosts(TestColumn, value))

TestEscape ==
    /\ cols[TestColumn].search_active
    /\ cols' = [cols EXCEPT ![TestColumn] = Escape(@)]
    /\ PanelOp(EscapePosts(TestColumn))

\* a refresh as the column sees it: action_refresh calls set_loading(True),
\* the success callback set_items with the fetched items
TestRefresh ==
    \E items \in TestItems :
        /\ cols' = [cols EXCEPT ![TestColumn] = SetItems(SetLoading(@, TRUE), items)]
        /\ PanelOp(SetItemsPosts(TestColumn, items))

\* the harness highlights row i of the enabled list
TestHighlight ==
    \E i \in 0..(Len(cols[TestColumn].options) - 1) :
        /\ ~cols[TestColumn].disabled
        /\ cols' = [cols EXCEPT ![TestColumn].highlighted = i]
        /\ PanelOp(CursorPosts(TestColumn, cols[TestColumn].highlighted, i))

\* a Selected message reaches the harness App, which has no handler for it
SelectedBubbles ==
    /\ queue # <<>>
    /\ Head(queue).t = "selected"
    /\ queue' = Tail(queue)
    /\ UNCHANGED <<app, cols, details, workers, timers, budget>>

ColumnNext ==
    \/ TestSetItems
    \/ TestSetLoading
    \/ TestToggleSearch
    \/ TestInputSubmitted
    \/ TestEscape
    \/ TestHighlight
    \/ TestRefresh
    \/ PostSelection
    \/ OnOptionHighlighted
    \/ SelectedBubbles

ColumnSpec == ColumnInit /\ [][ColumnNext]_vars

-----------------------------------------------------------------------------
(* The details panel on its own: texts are set, the search is toggled and   *)
(* terms are entered, MaxPanelOps times in all.                             *)

\* the texts set: empty, "a\nB", "Ab\nc\nba", "B\nc", "c"
TestTexts ==
    { <<>>,
      <<"a", "\n", "B">>,
      <<"A", "b", "\n", "c", "\n", "b", "a">>,
      <<"B", "\n", "c">>,
      <<"c">> }

\* the terms entered, as typed
TestTerms == { <<>>, <<"a">>, <<"B">>, <<"c">> }

DetailsOp ==
    /\ budget > 0
    /\ budget' = budget - 1
    /\ UNCHANGED <<app, cols, workers, queue, timers>>

TestUpdateContent ==
    \E text \in TestTexts :
        /\ details' = UpdateContent(details, text)
        /\ DetailsOp

TestDetailsToggleSearch ==
    /\ details' = DetailsToggleSearch(details)
    /\ DetailsOp

\* Enter or a change in the search input, which is shown while the search is
\* active
TestDetailsInput ==
    \E value \in TestTerms :
        /\ details.search_active
        /\ details' = DetailsInputSubmitted(details, value)
        /\ DetailsOp

DetailsNext ==
    \/ TestUpdateContent
    \/ TestDetailsToggleSearch
    \/ TestDetailsInput

DetailsSpec == ColumnInit /\ [][DetailsNext]_vars

-----------------------------------------------------------------------------
(* Keyboard navigation: the focus index, the cursor keys, the search keys  *)

\* self.max_col_idx, the focus index of the details panel
max_col_idx == 3

\* self.columns[idx], for idx < len(self.columns)
ColumnAt(idx) == Columns[idx + 1]

\* the focus index after action_focus_left
FocusLeftIdx(idx) == IF idx > 0 THEN idx - 1 ELSE idx

\* a focus_right that wraps from the details panel to the first column; C19
\* fails with it
FocusRightIdxWraps(idx) == (idx + 1) % (max_col_idx + 1)

\* the focus index after action_focus_right
FocusRightIdx(idx) ==
    IF idx < Len(Columns) - 1 THEN idx + 1
    ELSE IF idx = Len(Columns) - 1 THEN max_col_idx
    ELSE idx

\* KTreeApp.action_focus_left
ActionFocusLeft ==
    /\ app' = [app EXCEPT !.current_col_idx = FocusLeftIdx(@)]
    /\ UNCHANGED <<cols, details, workers, queue, timers, budget>>

\* KTreeApp.action_focus_right
ActionFocusRight ==
    /\ app' = [app EXCEPT !.current_col_idx = FocusRightIdx(@)]
    /\ UNCHANGED <<cols, details, workers, queue, timers, budget>>

\* the timer _trigger_selection_from_highlight sets for column c
TriggerTimer(c) == Msg("trigger", c, None)

\* the details panel's scroll offset after action_scroll_down (d = 1) or
\* action_scroll_up (d = -1): it moves by a line where there is room
ScrollTargets(y, d) == {y} \cup ({y + d} \cap (0..MaxScroll))

\* KTreeApp.action_focus_up (d = -1) and action_focus_down (d = 1): on a
\* column the option list moves its cursor and the trigger timer is set; on
\* the details panel the panel scrolls
FocusMove(d) ==
    /\ budget' = budget - 1
    /\ IF app.current_col_idx < Len(Columns)
       THEN LET c == ColumnAt(app.current_col_idx) IN
            \E h \in CursorTargets(cols[c], d) :
                /\ cols' = [cols EXCEPT ![c].highlighted = h]
                /\ queue' = queue \o CursorPosts(c, cols[c].highlighted, h)
                /\ timers' = timers (+) One(TriggerTimer(c))
                /\ UNCHANGED details
       ELSE /\ \E y \in ScrollTargets(details.scroll_y, d) :
                details' = [details EXCEPT !.scroll_y = y]
            /\ UNCHANGED <<cols, queue, timers>>
    /\ UNCHANGED <<app, workers>>

ActionFocusUp ==
    /\ budget > 0
    /\ FocusMove(-1)

ActionFocusDown ==
    /\ budget > 0
    /\ FocusMove(1)

\* on_browser_column_selected called directly with Selected(c, item), the
\* UI queue being `rest` when it returns
OnBrowserColumnSelected(c, item, rest) ==
    IF c = ColNs
    THEN /\ NamespaceSelected(item)
         /\ Fits(One(LoadObjectTypes(item)))
         /\ workers' = workers (+) One(LoadObjectTypes(item))
         /\ queue' = rest \o SetItemsPosts(ColObjects, <<>>)
    ELSE IF c = ColTypes
    THEN IF app.current_namespace = None
         THEN /\ queue' = rest
              /\ UNCHANGED <<app, cols, details, workers>>
         ELSE /\ app' = TypeSelectedApp(item)
              /\ details' = UpdateContent(details,
                     LoadingObjectsText(item, app.current_namespace))
              /\ cols' = [cols EXCEPT ![ColObjects] = SetLoading(@, TRUE)]
              /\ Fits(One(LoadObjects(item)))
              /\ workers' = workers (+) One(LoadObjects(item))
              /\ queue' = rest
    ELSE IF app.current_namespace = None \/ app.current_object_type = None
         THEN /\ queue' = rest
              /\ UNCHANGED <<app, cols, details, workers>>
         ELSE /\ app' = ObjectSelectedApp(item)
              /\ details' = UpdateContent(details,
                     LoadingDetailsText(app.current_object_type, item))
              /\ Fits(One(LoadDetails(item)))
              /\ workers' = workers (+) One(LoadDetails(item))
              /\ queue' = rest
              /\ UNCHANGED cols

\* the timer of _trigger_selection_from_highlight fires: `trigger` reads the
\* cursor and calls on_browser_column_selected for the item under it
TriggerFired ==
    \E m \in BagToSet(timers) :
        /\ m.t = "trigger"
        /\ timers' = timers (-) One(m)
        /\ IF HighlightedItem(cols[m.col]) # None
           THEN OnBrowserColumnSelected(m.col, HighlightedItem(cols[m.col]), queue)
           ELSE UNCHANGED <<app, cols, details, workers, queue>>
        /\ UNCHANGED budget

\* The application under the keyboard: startup against a directory whose
\* fetches succeed, with focus changes and up to MaxKeys cursor keys.
NavNext ==
    \/ WorkerSucceeds
    \/ OnNamespacesLoaded
    \/ OnObjectTypesLoaded
    \/ OnObjectsLoadedFromSelection
    \/ OnDetailsLoaded
    \/ PostSelection
    \/ OnOptionHighlighted
    \/ SelectedNamespace
    \/ StartupTimerFired
    \/ SelectedType
    \/ SelectedObject
    \/ ActionFocusLeft
    \/ ActionFocusRight
    \/ ActionFocusUp
    \/ ActionFocusDown
    \/ TriggerFired

\* the application as constructed (Init), with MaxKeys keys to come
NavInit ==
    /\ app = [current_namespace |-> None, current_object_type |-> None,
              current_view |-> "describe", describe_content |-> None,
              current_pod_name |-> None, connection_error |-> None,
              current_col_idx |-> 0, k8s |-> TRUE, exec_commands |-> <<>>,
              initial_namespace |-> None, initial_type |-> None,
     clipboard |-> None]
    /\ cols = [c \in ColumnIds |->
                 IF c = ColNs THEN SetLoading(NewColumn, TRUE) ELSE NewColumn]
    /\ details = UpdateContent(NewDetailsPanel, LoadingNamespacesText)
    /\ workers = One(Worker("namespaces", None, None, None, None, None))
    /\ queue = <<>>
    /\ timers = EmptyBag
    /\ budget = MaxKeys

NavSpec == NavInit /\ [][NavNext]_vars

-----------------------------------------------------------------------------
(* Steps, as seen from a pair of states *)

\* this step is the completion callback of worker w
Delivered(w) ==
    /\ w \in BagToSet(workers)
    /\ w.phase = "done"
    /\ workers' = workers (-) One(w)

\* this step handles the message at the head of the UI queue
HandlesHead ==
    /\ queue # <<>>
    /\ queue' # queue
    /\ Len(queue') <= Len(queue)

\* this step is on_browser_column_selected for column c, entered by a
\* Selected message or by the startup timer
SelectionHandled(c) ==
    \/ HandlesHead /\ Head(queue).t = "selected" /\ Head(queue).col = c
    \/ c = ColNs /\ timers' # timers /\ BagCardinality(timers') < BagCardinality(timers)

\* the item of the selection this step handles
SelectedItem ==
    IF HandlesHead THEN Head(queue).item
    ELSE (CHOOSE m \in BagToSet(timers) : TRUE).item

\* the workers this step starts
StartedBy(op) ==
    {w \in BagToSet(workers') :
        w.op = op /\ w.phase = "started" /\ CopiesIn(w, workers') > CopiesIn(w, workers)}

\* a list column in its empty state: no items, "No items" shown, not loading
EmptyState(col) ==
    /\ col.items = <<>>
    /\ col.filtered_items = <<>>
    /\ ~col.is_loading
    /\ col.options = <<NoItemsRow>>
    /\ col.highlighted = NoHighlight

-----------------------------------------------------------------------------
(* Relevance of completions *)

\* C1: a type-list completion of a fetch issued by selecting a namespace
\* that is no longer the current one is discarded: it changes no column and
\* posts no selection.
C1_StaleTypeListDiscarded ==
    [][\A w \in BagToSet(workers) :
          (Delivered(w) /\ w.op = "types_sel" /\ w.ok
              /\ w.ns # app.current_namespace)
          => (cols' = cols /\ queue' = queue /\ app' = app)]_vars

\* C2: an object-list completion (result or error) issued for namespace N
\* and kind K changes nothing unless N and K are still the current namespace
\* and object type when it is delivered.
C2_StaleObjectListDiscarded ==
    [][\A w \in BagToSet(workers) :
          (Delivered(w) /\ w.op = "objects_sel"
              /\ (w.for_ns # app.current_namespace
                  \/ w.kind # app.current_object_type))
          => UNCHANGED <<app, cols, details, queue>>]_vars

\* the selection a describe or logs worker was started for is still current
\* (the application records the selected object's name for pods only)
StillSelected(w) ==
    /\ w.for_ns = app.current_namespace
    /\ w.for_kind = app.current_object_type
    /\ (w.op = "details" /\ w.for_kind = Pods) => (w.item = app.current_pod_name)

\* C3: a describe or logs completion (result or error) is applied only if
\* the namespace, kind and object it was issued for are still selected; a
\* completion for a selection that has changed is dropped.
C3_StaleDetailsDropped ==
    [][\A w \in BagToSet(workers) :
          (Delivered(w) /\ w.op \in {"details", "logs"} /\ ~StillSelected(w))
          => UNCHANGED <<app, cols, details, queue>>]_vars

-----------------------------------------------------------------------------
(* Auto-cascade *)

\* the column a list fetch populates
TargetColumn(op) ==
    CASE op \in {"namespaces", "namespaces_refresh"} -> ColNs
      [] op \in {"types_sel", "types_refresh"} -> ColTypes
      [] op \in {"objects_sel", "objects_refresh"} -> ColObjects

ListOps ==
    {"namespaces", "namespaces_refresh", "types_sel", "types_refresh",
     "objects_sel", "objects_refresh"}

\* this step runs the post_selection callback of column c
PostSelectionRuns(c) ==
    HandlesHead /\ Head(queue).t = "post_selection" /\ Head(queue).col = c

\* C4 as stated: every post_selection callback, which only a set_items
\* that left filtered_items non-empty schedules, delivers a Selected message
\* of its column to the app.
C4_SelectionAlwaysDelivered ==
    [][\A c \in ColumnIds :
          PostSelectionRuns(c)
          => /\ Len(queue') = Len(queue)
             /\ queue'[Len(queue')].t = "selected"
             /\ queue'[Len(queue')].col = c]_vars

\* C4 (amended): a set_items that leaves filtered_items non-empty puts the
\* cursor on row 0 and schedules post_selection; when post_selection runs it
\* posts Selected for the first of the column's filtered_items of that moment
\* if the column is still enabled, non-empty and highlighted, and nothing
\* otherwise; a Selected message of the types column handled with a current
\* namespace sets the object type and starts the object-list fetch for it.
C4_AutoCascade ==
    [][/\ \A w \in BagToSet(workers) :
            (Delivered(w) /\ w.ok /\ w.op \in ListOps
                /\ cols'[TargetColumn(w.op)].filtered_items # <<>>)
            => LET c == TargetColumn(w.op) IN
               /\ cols'[c].highlighted = 0
               /\ queue' = queue \o
                    << Msg("highlighted", c, cols'[c].filtered_items[1]),
                       Msg("post_selection", c, None) >>
       /\ \A c \in ColumnIds :
            PostSelectionRuns(c)
            => IF /\ cols[c].filtered_items # <<>>
                  /\ ~cols[c].disabled
                  /\ cols[c].highlighted # NoHighlight
               THEN queue' = Tail(queue) \o
                        << Msg("selected", c, cols[c].filtered_items[1]) >>
               ELSE queue' = Tail(queue)
       /\ (SelectionHandled(ColTypes) /\ app.current_namespace # None)
            => /\ app'.current_object_type = SelectedItem
               /\ StartedBy("objects_sel") =
                    {Worker("objects_sel", None, SelectedItem, None,
                            app.current_namespace, SelectedItem)}
               /\ cols'[ColObjects].is_loading]_vars

\* C4 witness: with no user input the type list of n1 resolved to
\* <<Pods, Services>>, Pods has been selected and the object-list fetch for
\* (n1, Pods) is in flight
C4_Witness ==
    /\ budget = MaxUser
    /\ cols[ColTypes].items = <<Pods, Services>>
    /\ cols[ColTypes].highlighted = 0
    /\ app.current_namespace = NS1
    /\ app.current_object_type = Pods
    /\ cols[ColObjects].is_loading
    /\ \E w \in BagToSet(workers) :
          w.op = "objects_sel" /\ w.kind = Pods /\ w.for_ns = NS1

\* the state the startup cascade settles in
Settled ==
    LET ns == GetNamespaces[1]
        kind == GetObjectTypes[1]
        name == GetObjects(ns, kind)[1]
    IN /\ \A c \in ColumnIds : ~cols[c].is_loading
       /\ app.current_namespace = ns
       /\ app.current_object_type = kind
       /\ details.content = GetDetails(ns, kind, name)
       /\ app.current_view = "describe"

\* C5: on startup with no user input and a directory whose lists are
\* non-empty and whose fetches all succeed, the application eventually stays
\* in the state where no column is loading, the first namespace and the
\* first kind are current, and the details panel shows the describe text of
\* the first object in the describe view.
C5_StartupSettles == <>[]Settled

\* C5 witness: the cascade has run to its end
C5_Witness ==
    /\ Settled
    /\ workers = EmptyBag
    /\ queue = <<>>
    /\ timers = EmptyBag
    /\ cols[ColObjects].items = <<P1, P2>>

-----------------------------------------------------------------------------
(* Namespace selection *)

\* C6: when a namespace selection for item x has been handled, the current
\* namespace is x, the object type, the recorded object (pod) name and the
\* cached describe text are cleared, and the view is "describe".
C6_NamespaceSelectionResets ==
    [][SelectionHandled(ColNs) =>
          /\ app'.current_namespace = SelectedItem
          /\ app'.current_object_type = None
          /\ app'.current_pod_name = None
          /\ app'.describe_content = None
          /\ app'.current_view = "describe"]_vars

\* C7: handling a namespace selection leaves the objects column in its empty
\* state in the same step, while the type-list fetch it starts is still in
\* flight; nothing is scheduled or posted for the objects column, and the
\* types column shows the loading row.
C7_ObjectsEmptiedOnNamespaceSelection ==
    [][SelectionHandled(ColNs) =>
          /\ EmptyState(cols'[ColObjects])
          /\ cols'[ColTypes].is_loading
          /\ StartedBy("types_sel") = {LoadObjectTypes(SelectedItem)}
          /\ IF HandlesHead THEN queue' = Tail(queue) ELSE queue' = queue]_vars

\* C7 witness: the objects column, which held the pods of n1, is empty and
\* not loading while the type-list fetch for the newly selected n2 is in flight
C7_Witness ==
    /\ app.current_namespace = NS2
    /\ app.current_pod_name = P1
    /\ EmptyState(cols[ColObjects])
    /\ cols[ColTypes].is_loading
    /\ \E w \in BagToSet(workers) : w.op = "types_sel" /\ w.ns = NS2 /\ w.phase = "started"
    /\ \A i \in 1..Len(queue) : queue[i].col # ColObjects

-----------------------------------------------------------------------------
(* Empty object lists and failures *)

\* C8: when the object-list fetch for kind K in namespace N returns an empty
\* list, the details panel shows the message naming K and N, the objects
\* column is in its empty state, and no describe fetch is started and no
\* object selection posted.
C8_EmptyObjectList ==
    [][\A w \in BagToSet(workers) :
          (Delivered(w) /\ w.op = "objects_sel" /\ w.ok /\ w.res = <<>>)
          => /\ details'.content = NoObjectsText(w.kind, w.ns)
             /\ EmptyState(cols'[ColObjects])
             /\ StartedBy("details") = {}
             /\ queue' = queue]_vars

\* C9: a describe failure for (namespace, kind, name) leaves the current
\* namespace, object type and recorded object name as they were and sets the
\* details panel to the error message, which contains the kind and the name.
C9_DescribeFailure ==
    [][\A w \in BagToSet(workers) :
          (Delivered(w) /\ w.op = "details" /\ ~w.ok)
          => /\ app' = app
             /\ cols' = cols
             /\ details'.content = DetailsErrorText(w.kind, w.item)
             /\ Mentions(details'.content, w.kind)
             /\ Mentions(details'.content, w.item)
             /\ details'.content \in ErrorTexts]_vars

\* C9 witness: the describe of pod p1 in n1 has failed and the error message
\* is shown while the selection is still n1 / Pods / p1
C9_Witness ==
    /\ details.content = DetailsErrorText(Pods, P1)
    /\ app.current_namespace = NS1
    /\ app.current_object_type = Pods
    /\ app.current_pod_name = P1
    /\ cols[ColObjects].items = <<P1, P2>>

\* the columns upstream of the step a worker belongs to
Upstream(op) ==
    CASE op \in {"types_sel", "types_refresh"} -> {ColNs}
      [] op \in {"objects_sel", "objects_refresh"} -> {ColNs, ColTypes}
      [] op \in {"details", "logs"} -> {ColNs, ColTypes, ColObjects}
      [] OTHER -> {}

\* C10: a fetch failure at any stage (type list, object list, describe,
\* logs, refresh) replaces the details content with an error message and
\* leaves the upstream columns (items, filter, cursor) and the current
\* namespace and object type as they were.
C10_FailureKeepsUpstream ==
    [][\A w \in BagToSet(workers) :
          (Delivered(w) /\ ~w.ok /\ w.op # "namespaces")
          => /\ details'.content \in ErrorTexts
             /\ \A c \in Upstream(w.op) : cols'[c] = cols[c]
             /\ app'.current_namespace = app.current_namespace
             /\ app'.current_object_type = app.current_object_type]_vars

\* C10 witness: the object-list fetch for n1 / Pods has failed; the error
\* message is shown and the namespace and type columns still hold their
\* items and cursors
C10_Witness ==
    /\ details.content = ObjectsErrorText(Pods, NS1)
    /\ app.current_namespace = NS1
    /\ app.current_object_type = Pods
    /\ cols[ColTypes].items = <<Pods, Services>>
    /\ cols[ColTypes].highlighted = 0
    /\ cols[ColNs].items = <<NS1, NS2>>
    /\ EmptyState(cols[ColObjects])

-----------------------------------------------------------------------------
(* The list panel: filter, cursor, loading *)

\* C11: a set_items with new items while a filter term is active keeps the
\* filter and leaves as filtered_items exactly the new items whose lowercase
\* form contains the term, in their order.
C11_FilterPersistsAcrossReload ==
    [][\A c \in ColumnIds :
          (cols[c].is_filtered /\ cols'[c].items # cols[c].items)
          => /\ cols'[c].is_filtered
             /\ cols'[c].filter_term = cols[c].filter_term
             /\ cols'[c].filtered_items =
                    SelectSeq(cols'[c].items,
                        LAMBDA item : Contains(Lower(item), cols[c].filter_term))
             /\ cols'[c].options =
                    IF cols'[c].filtered_items = <<>>
                    THEN <<NoItemsRow>> ELSE cols'[c].filtered_items]_vars

\* C11 witness: with the filter "a" active the column was reloaded with
\* A3, b2 and shows A3
C11_Witness ==
    /\ cols[TestColumn].is_filtered
    /\ cols[TestColumn].filter_term = <<"a">>
    /\ cols[TestColumn].items = <<A3, B2>>
    /\ cols[TestColumn].filtered_items = <<A3>>
    /\ cols[TestColumn].options = <<A3>>

C14_ClearFilterRestoresItems ==
    [][\A c \in ColumnIds :
          (cols[c].is_filtered /\ ~cols'[c].is_filtered)
          => /\ cols'[c].items = cols[c].items
             /\ cols'[c].filtered_items = cols[c].items
             /\ cols'[c].options =
                    IF cols[c].items = <<>> THEN <<NoItemsRow>> ELSE cols[c].items]_vars

\* C14 witness: a filter was applied to a1, a2, b1 and the search toggled
\* off (the term is still stored): all three items are back
C14_Witness ==
    /\ ~cols[TestColumn].is_filtered
    /\ ~cols[TestColumn].search_active
    /\ cols[TestColumn].filter_term # <<>>
    /\ cols[TestColumn].items = <<A1, A2, B1>>
    /\ cols[TestColumn].filtered_items = <<A1, A2, B1>>
    /\ cols[TestColumn].options = <<A1, A2, B1>>

\* this step is set_loading(False) on a loading column c: the column leaves
\* loading and neither posts anything nor shows the "No items" row, as
\* set_items would
LeavesLoading(c) ==
    /\ cols[c].is_loading
    /\ ~cols'[c].is_loading
    /\ queue' = queue
    /\ cols'[c].options # <<NoItemsRow>>

\* C18: a step that puts a column into loading leaves only the loading row in
\* its option list, disabled and without cursor; set_loading(False) with no
\* set_items leaves the option list empty, without cursor and not loading,
\* so that a cursor move stays without cursor and the readers of the cursor
\* (deferred trigger, logs, exec) find no item.
C18_LoadingClearsContent ==
    [][\A c \in ColumnIds :
          /\ (~cols[c].is_loading /\ cols'[c].is_loading)
                => /\ cols'[c].options = <<LoadingRow>>
                   /\ cols'[c].disabled
                   /\ cols'[c].highlighted = NoHighlight
                   /\ HighlightedItem(cols'[c]) = None
          /\ LeavesLoading(c)
                => /\ cols'[c].options = <<>>
                   /\ cols'[c].highlighted = NoHighlight
                   /\ HighlightedItem(cols'[c]) = None
                   /\ \A d \in {-1, 1} : CursorTargets(cols'[c], d) = {NoHighlight}]_vars

\* C18 witness: a column that held items has left loading by
\* set_loading(False): nothing is shown and there is no cursor
C18_Witness ==
    /\ ~cols[TestColumn].is_loading
    /\ cols[TestColumn].items = <<A1, A2, B1>>
    /\ cols[TestColumn].options = <<>>
    /\ cols[TestColumn].highlighted = NoHighlight
    /\ ~cols[TestColumn].disabled

\* the items a column shows: the rows of its option list that are not
\* placeholders
Rows(col) == SelectSeq(col.options, LAMBDA o : o \notin Placeholders)

\* this step rebuilds column c's list: set_items, or a filter change
Rebuilds(c) ==
    /\ budget' # budget
    /\ \/ cols'[c].items # cols[c].items
       \/ cols'[c].filtered_items # cols[c].filtered_items
       \/ cols'[c].is_filtered # cols[c].is_filtered
       \/ cols[c].search_active /\ ~cols'[c].search_active
       \/ cols[c].is_loading /\ ~cols'[c].is_loading /\ cols'[c].options # <<>>

PostsSelected(c, item) ==
    LET m == Msg("selected", c, item) IN
    \/ queue' = Append(queue, m)
    \/ queue # <<>> /\ queue' = Append(Tail(queue), m)
    \/ Len(queue') >= 2 /\ queue'[Len(queue')] = m /\ Len(queue') = Len(queue) + 2

\* C15: a column posts no Selected while it is loading or in its empty state,
\* and never one that carries a placeholder row.
C15_NoSelectionWhileDisabled ==
    [][\A c \in ColumnIds :
          \A item \in Placeholders \cup {A1, A2, B1, A3, B2} :
              PostsSelected(c, item)
              => /\ ~cols[c].is_loading
                 /\ ~EmptyState(cols[c])
                 /\ item \notin Placeholders]_vars

-----------------------------------------------------------------------------
(* Keyboard navigation *)

\* the column the focus is on, when it is on one
Focused == ColumnAt(app.current_col_idx)

\* this step is a cursor key in direction d
CursorKey(d) == budget > 0 /\ FocusMove(d)

\* a cursor move in direction d would leave column col's list
AtBound(col, d) ==
    /\ col.highlighted # NoHighlight
    /\ ~(0 <= col.highlighted + d /\ col.highlighted + d < Len(col.options))

\* this step sets a trigger timer for column c that will find an item under
\* the cursor and call on_browser_column_selected with it
SelectionScheduled(c) ==
    /\ CopiesIn(TriggerTimer(c), timers') > CopiesIn(TriggerTimer(c), timers)
    /\ HighlightedItem(cols'[c]) # None

\* C16: a cursor key on a disabled column (loading or empty), or with the
\* cursor at the end of the list in the key's direction, does nothing: the
\* cursor stays, nothing is posted, no selection is scheduled, no fetch
\* started.
C16_CursorKeyNoOp ==
    [][\A d \in {-1, 1} :
          (/\ CursorKey(d)
           /\ app.current_col_idx < Len(Columns)
           /\ cols[Focused].disabled \/ AtBound(cols[Focused], d))
          => /\ UNCHANGED <<app, cols, details, workers, queue>>
             /\ ~SelectionScheduled(Focused)]_vars

-----------------------------------------------------------------------------
(* Refresh *)

\* the fetch a refresh is to issue: for the deepest level the selection
\* reaches
DeepestLevel ==
    IF app.current_namespace # None /\ app.current_object_type # None
    THEN "objects_refresh"
    ELSE IF app.current_namespace # None THEN "types_refresh"
    ELSE "namespaces_refresh"

\* C20: action_refresh starts exactly one worker, the fetch for the deepest
\* selected level, and puts that level's column, and no other, into loading;
\* the successful completion of a refresh fetch makes its result the items of
\* that column and leaves the other columns and the selection as they are.
C20_RefreshDeepestLevel ==
    [][/\ ActionRefresh
          => /\ BagCardinality(workers') = BagCardinality(workers) + 1
             /\ \E w \in StartedBy(DeepestLevel) : workers' = workers (+) One(w)
             /\ cols'[RefreshColumn(DeepestLevel)].is_loading
             /\ \A c \in ColumnIds \ {RefreshColumn(DeepestLevel)} : cols'[c] = cols[c]
             /\ app' = app
       /\ \A w \in BagToSet(workers) :
            (Delivered(w) /\ w.op \in RefreshOps /\ w.ok)
            => /\ cols'[RefreshColumn(w.op)].items = w.res
               /\ ~cols'[RefreshColumn(w.op)].is_loading
               /\ \A c \in ColumnIds \ {RefreshColumn(w.op)} : cols'[c] = cols[c]
               /\ app' = app]_vars

\* C20 witness: with a namespace and a type selected a refresh has fetched
\* the objects; the objects column is loading, the fetched pods about to be
\* handed to it
C20_Witness ==
    /\ app.current_namespace = NS1
    /\ app.current_object_type = Pods
    /\ cols[ColObjects].is_loading
    /\ \E w \in BagToSet(workers) :
          w.op = "objects_refresh" /\ w.phase = "done" /\ w.ok /\ w.res = <<P1, P2>>

-----------------------------------------------------------------------------
(* Refresh of a column, deferred selections *)

\* C21: a refresh of a column keeps its active filter, and when the item
\* under the cursor before the refresh is among the items shown after it,
\* the cursor is on that item again.
C21_RefreshKeepsCursorByValue ==
    [][\A c \in ColumnIds :
          (TestRefresh /\ c = TestColumn)
          => /\ cols'[c].is_filtered = cols[c].is_filtered
             /\ cols'[c].filter_term = cols[c].filter_term
             /\ \A i \in 1..Len(cols'[c].filtered_items) :
                   (HighlightedItem(cols[c]) = cols'[c].filtered_items[i])
                   => HighlightedItem(cols'[c]) = HighlightedItem(cols[c])]_vars

\* a post_selection of column c scheduled by a later set_items waits behind
\* the head of the queue: the column has been repopulated since the one at
\* the head was scheduled
Repopulated(c) ==
    \E i \in 2..Len(queue) : queue[i].t = "post_selection" /\ queue[i].col = c

\* C22: a post_selection that fires after its column has been populated
\* again posts nothing, so that the newer population is selected once, by
\* its own post_selection.
C22_StalePostSelectionNoOp ==
    [][\A c \in ColumnIds :
          (PostSelectionRuns(c) /\ Repopulated(c)) => queue' = Tail(queue)]_vars

\* this step is a timer firing that calls on_browser_column_selected with
\* Selected(c, item): the startup timer with the namespace it was set for,
\* the trigger of a cursor key with the item it finds under the cursor
TimerDelivers(c, item) ==
    \E m \in BagToSet(timers) :
        /\ timers' = timers (-) One(m)
        /\ m.col = c
        /\ item # None
        /\ item = IF m.t = "startup_timer" THEN m.item ELSE HighlightedItem(cols[c])

\* C23: a timer that fires delivers a selection only for the item that is,
\* at that time, under the cursor of an enabled column that is not loading.
C23_TimersRevalidate ==
    [][\A c \in ColumnIds :
          \A item \in {NS1, NS2, Pods, Services, P1, P2, S1} :
              TimerDelivers(c, item)
              => /\ ~cols[c].disabled
                 /\ ~cols[c].is_loading
                 /\ HighlightedItem(cols[c]) = item]_vars

\* C24: a session whose startup failed to connect (no client, or the
\* reachability check false) shows the connection-error message and never has
\* a fetch in flight, whatever the user does afterwards
C24_FailedStartupIsTerminal ==
    app.connection_error # None =>
        /\ workers = EmptyBag
        /\ details.content = ConnectionErrorText(app.connection_error)

\* the current kind is not Pods
NotPods == app.current_object_type # Pods

\* C25: with a namespace selected and a kind other than Pods, view-logs and
\* exec start no fetch, generate no exec commands, do not take the view to
\* logs or exec, and show their 'only available for Pods' message
C25_LogsAndExecOnlyForPods ==
    [][/\ (ActionViewLogs /\ NotPods)
          => /\ workers' = workers
             /\ app'.exec_commands = app.exec_commands
             /\ app'.current_view \in {"logs", "exec"}
                    => app'.current_view = app.current_view
             /\ details'.content = LogsOnlyPodsText
       /\ (ActionExecContainer /\ NotPods)
          => /\ workers' = workers
             /\ app'.exec_commands = app.exec_commands
             /\ app'.current_view = "describe"
             /\ details'.content = ExecOnlyPodsText]_vars

\* view-logs has been pressed with Services as the current kind
C25_Witness ==
    /\ app.current_namespace # None
    /\ app.current_object_type = Services
    /\ details.content = LogsOnlyPodsText
    /\ workers = EmptyBag

\* C26: switch-to-describe with a describe text kept shows exactly that text
\* in the describe view and starts no fetch, whatever the view was; with no
\* describe text kept it changes neither the view nor the content
C26_ViewDescribeUsesCache ==
    [][ActionViewDescribe
       => /\ workers' = workers
          /\ IF app.describe_content # None
             THEN /\ app'.current_view = "describe"
                  /\ details'.content = app.describe_content
                  /\ app'.describe_content = app.describe_content
             ELSE /\ app'.current_view = app.current_view
                  /\ details'.content = details.content]_vars

\* back in the describe view after the exec menu was shown, by two inputs
C26_Witness ==
    /\ app.exec_commands # <<>>
    /\ app.current_view = "describe"
    /\ app.describe_content # None
    /\ details.content = app.describe_content
    /\ budget = MaxInputs - 2

\* C27: while a filter is active the details panel displays exactly the lines
\* of the stored unfiltered text that contain the term, also after a new
\* (possibly empty) text is set
C27_FilteredDisplay ==
    (details.search_active /\ details.filter_term # <<>>)
        => details.content = FilterLines(details.original_content, details.filter_term)

\* C28: the step in which a background worker runs its fetch changes no
\* column, no field of the app and nothing of the details panel: its result
\* or error waits, with the worker, for the callback on the UI thread
C28_WorkersMutateNothing ==
    [][WorkerRun => UNCHANGED <<app, cols, details, queue, timers>>]_vars

\* a worker has fetched and its callback has not run yet, while the column it
\* is for still shows the loading state it was given on the UI thread
C28_Witness ==
    \E w \in BagToSet(workers) :
        /\ w.phase = "done" /\ w.ok /\ w.op = "objects_sel"
        /\ cols[ColObjects].is_loading

\* the failure of worker w is delivered: its callback takes it off the bag
FailureDelivered(w) ==
    /\ w.phase = "done" /\ ~w.ok
    /\ CopiesIn(w, workers') < CopiesIn(w, workers)

\* the text the error callback of worker w shows
FailureReport(w) ==
    CASE w.op = "namespaces" -> ConnectionErrorText(ConnectionError)
      [] w.op = "types_sel" -> TypesErrorText
      [] w.op = "objects_sel" -> ObjectsErrorText(w.kind, app.current_namespace)
      [] w.op = "details" -> DetailsErrorText(w.kind, w.item)
      [] w.op = "logs" -> LogsErrorText(w.item)
      [] OTHER -> RefreshErrorText(w.op)

StartupNamespace ==
    IF InitialPresent(GetNamespaces) THEN app.initial_namespace ELSE GetNamespaces[1]

\* startup has come to rest on the namespace ns: it is current, with the
\* first kind, and the types and objects columns and the details panel hold
\* what the directory has for it
SettledOn(ns) ==
    LET kind == GetObjectTypes[1]
        objects == GetObjects(ns, kind)
    IN /\ \A c \in ColumnIds : ~cols[c].is_loading
       /\ app.current_namespace = ns
       /\ app.current_object_type = kind
       /\ cols[ColTypes].items = GetObjectTypes
       /\ cols[ColObjects].items = objects
       /\ details.content = IF Len(objects) > 0
                            THEN GetDetails(ns, kind, objects[1])
                            ELSE NoObjectsText(kind, ns)

-----------------------------------------------------------------------------
(* The col-types and col-objects branches of the selection handler *)

\* C31: handling a type selection for an item while a namespace is set
\* records the item as the object type, clears the describe text, resets the
\* view to describe, puts the objects column into loading and starts exactly
\* one object-list worker, for that item and issued under that namespace;
\* with no namespace set it changes nothing and starts nothing
C31_TypeSelection ==
    [][SelectionHandled(ColTypes)
       => IF app.current_namespace # None
          THEN /\ app'.current_object_type = SelectedItem
               /\ app'.describe_content = None
               /\ app'.current_view = "describe"
               /\ app'.current_namespace = app.current_namespace
               /\ cols'[ColObjects].is_loading
               /\ \E w \in StartedBy("objects_sel") :
                     /\ w.kind = SelectedItem
                     /\ w.for_ns = app.current_namespace
                     /\ workers' = workers (+) One(w)
          ELSE /\ UNCHANGED <<app, cols, details, workers, timers>>
               /\ queue' = Tail(queue)]_vars

\* the user's selection of Services has been handled after the startup
\* cascade had shown a describe text: the text is gone and the object list
\* of Services is being fetched
C31_Witness ==
    /\ app.current_namespace = NS1
    /\ app.current_object_type = Services
    /\ app.describe_content = None
    /\ cols[ColObjects].is_loading
    /\ budget = 0
    /\ \E w \in BagToSet(workers) :
          w.op = "objects_sel" /\ w.kind = Services /\ w.phase = "started"

\* C32: handling an object selection for an item while a namespace and an
\* object type are set stores the item as the pod name exactly when the type
\* is Pods and clears the pod name otherwise, and starts exactly one describe
\* worker for that type and item, issued under that namespace; with the
\* namespace or the type unset it changes nothing and starts nothing.  The
\* successful completion of a describe worker leaves its text as the describe
\* text and as the details content, in the describe view.
C32_ObjectSelection ==
    [][/\ SelectionHandled(ColObjects)
          => IF app.current_namespace # None /\ app.current_object_type # None
             THEN /\ app'.current_pod_name =
                        IF app.current_object_type = Pods THEN SelectedItem ELSE None
                  /\ \E w \in StartedBy("details") :
                        /\ w.item = SelectedItem
                        /\ w.kind = app.current_object_type
                        /\ w.for_ns = app.current_namespace
                        /\ workers' = workers (+) One(w)
             ELSE /\ UNCHANGED <<app, cols, details, workers, timers>>
                  /\ queue' = Tail(queue)
       /\ \A w \in BagToSet(workers) :
             (Delivered(w) /\ w.op = "details" /\ w.ok)
             => /\ app'.describe_content = w.res
                /\ app'.current_view = "describe"
                /\ details'.content = w.res]_vars

\* the service of the second namespace has been selected and described: no
\* pod name is stored
C32_Witness ==
    /\ app.current_namespace = NS2
    /\ app.current_object_type = Services
    /\ app.current_pod_name = None
    /\ app.describe_content = GetDetails(NS2, Services, S1)
    /\ details.content = GetDetails(NS2, Services, S1)
    /\ app.current_view = "describe"

\* an object selection has reached the app while no object type was set
C32_WitnessUnset ==
    /\ queue # <<>>
    /\ Head(queue).t = "selected" /\ Head(queue).col = ColObjects
    /\ app.current_object_type = None

-----------------------------------------------------------------------------
(* The selection context *)

\* C33: the object type is set only if the namespace is set, and the describe
\* text and the stored pod name are set only if the namespace and the object
\* type are both set
C33_ContextNesting ==
    /\ app.current_object_type # None => app.current_namespace # None
    /\ app.describe_content # None
          => (app.current_namespace # None /\ app.current_object_type # None)
    /\ app.current_pod_name # None
          => (app.current_namespace # None /\ app.current_object_type # None)

-----------------------------------------------------------------------------
(* The arguments of a fetch *)

\* this step runs the call of the started worker w and leaves it done as d
Runs(w, d) ==
    /\ w.phase = "started" /\ d.phase = "done"
    /\ CopiesIn(w, workers') < CopiesIn(w, workers)
    /\ CopiesIn(d, workers') > CopiesIn(d, workers)
    /\ d.op = w.op /\ d.item = w.item
    /\ d.for_ns = w.for_ns /\ d.for_kind = w.for_kind

\* C34: the object-list worker and the describe worker started by a
\* selection make their call with the namespace that was current when the
\* selection was handled, and with the kind of that selection
C34_FetchForIssuingSelection ==
    [][\A w \in BagToSet(workers) : \A d \in BagToSet(workers') :
          (Runs(w, d) /\ w.op \in {"objects_sel", "details"})
          => (d.ns = w.for_ns /\ d.kind = w.for_kind)]_vars

-----------------------------------------------------------------------------
(* Rest *)

\* nothing is in flight or pending: no worker, no message or deferred
\* callback on the UI queue, no timer
Quiescent ==
    /\ workers = EmptyBag
    /\ queue = <<>>
    /\ timers = EmptyBag

\* C35: no list column is left in the loading state once every fetch has
\* completed, whether the fetches succeeded or failed
C35_LoadingIsTransient ==
    Quiescent => \A c \in ColumnIds : ~cols[c].is_loading

-----------------------------------------------------------------------------
(* One keystroke, one selection *)

\* C36: a cursor key that moves the cursor of a list column gives rise to
\* one selection of the new item, not two: it does not both post the
\* highlight event of the new row, for which the column posts Selected, and
\* set the trigger timer that will select the row under the cursor
C36_OneSelectionPerKey ==
    [][\A d \in {-1, 1} :
          (/\ CursorKey(d)
           /\ app.current_col_idx < Len(Columns)
           /\ ~cols[Focused].disabled
           /\ ~AtBound(cols[Focused], d)
           /\ cols'[Focused].highlighted # cols[Focused].highlighted)
          => ~(/\ queue' = queue \o << Msg("highlighted", Focused,
                                           HighlightedItem(cols'[Focused])) >>
               /\ SelectionScheduled(Focused))]_vars

-----------------------------------------------------------------------------
(* The selection context and the panels at rest *)

\* C37: when nothing is in flight or pending, the selection context agrees
\* with the columns: the namespace is the highlighted row of the namespaces
\* column, the object type the highlighted row of the types column, and the
\* objects column holds the directory's list for that namespace and type
C37_ContextAgreesAtRest ==
    Quiescent =>
        /\ HighlightedItem(cols[ColNs]) # None
              => app.current_namespace = HighlightedItem(cols[ColNs])
        /\ HighlightedItem(cols[ColTypes]) # None
              => app.current_object_type = HighlightedItem(cols[ColTypes])
        /\ (app.current_namespace # None /\ app.current_object_type # None)
              => cols[ColObjects].items =
                     GetObjects(app.current_namespace, app.current_object_type)

-----------------------------------------------------------------------------
(* The initial kind *)

\* the callback of the finished worker w runs in this step
CallbackOf(w) ==
    /\ w \in BagToSet(workers)
    /\ w.phase = "done"
    /\ CopiesIn(w, workers') = CopiesIn(w, workers) - 1

\* C38: the initial kind is applied during the initial load only.  With no
\* initial namespace the initial load is for the first namespace, so a type
\* list delivered for another namespace was fetched for a later selection:
\* it leaves the object type alone, puts the cursor on the first kind and
\* starts no object-list fetch of its own.
C38_InitialKindOnlyAtStartup ==
    [][\A w \in BagToSet(workers) :
          (/\ CallbackOf(w) /\ w.op = "types_sel" /\ w.ok
           /\ app.initial_namespace = None
           /\ w.ns # GetNamespaces[1])
          => /\ app'.current_object_type = app.current_object_type
             /\ cols'[ColTypes].highlighted = 0
             /\ workers' = workers (-) One(w)]_vars

-----------------------------------------------------------------------------
(* The exec commands and the clipboard *)

\* C39: a copy-command-N action hands to the clipboard only a command of the
\* selection as it is now: kind Pods, a pod name set, and the command the Nth
\* shell has for that pod in the current namespace; with no stored commands
\* or N outside 1..4 the clipboard is left as it was.
C39_CopyRefersToSelection ==
    [][\A index \in CopyIndexes :
          CopyCommandByIndex(index)
          => /\ CopiedCommand(index) # None
                => /\ index \in 1..Len(Shells)
                   /\ app.current_object_type = Pods
                   /\ app.current_pod_name # None
                   /\ CopiedCommand(index)
                        = ExecCommand(app.current_pod_name, Shells[index])
             /\ (app.exec_commands = <<>> \/ index \notin 1..Len(Shells))
                => app'.clipboard = app.clipboard]_vars

=========================================================================
